---- MODULE Spec2Model ----
(***************************************************************************)
(* Model of the metrics-notifier repository: the reporting time range      *)
(* (time_range.rs / client.rs), the data-point aggregation and the         *)
(* metric-fetch call (cloud_watch_metrics_client.rs / client.rs) and the   *)
(* instance enumeration (ec2_instance_client.rs).                          *)
(*                                                                         *)
(* Value representations                                                   *)
(*   Option<T>      <<>> is None, <<x>> is Some(x)                         *)
(*   Result<T, E>   [ok |-> TRUE, val |-> x] / [ok |-> FALSE, err |-> e]   *)
(*   NaiveDate      [year, ordinal] (chrono keeps year and day-of-year)    *)
(*   DateTime<Utc>  [date |-> NaiveDate, secs |-> second of the UTC day]   *)
(*   f64            [k |-> "fin", n, d] the finite f64 written n/d (the    *)
(*                  f64 nearest to that fraction, n/d in lowest terms),    *)
(*                  or k \in {"nan", "pinf", "ninf"}                       *)
(*   BigDecimal     <<n, d>> the decimal value n/d in lowest terms         *)
(*                                                                         *)
(* The bigdecimal crate is not part of the repository's sources and its    *)
(* version is not pinned there. BigDecimalFromF64 and BigDecimalToF64      *)
(* follow what the specification says of the two conversions (section 4.2, *)
(* steps 3 and 5), not the crate's code.                                   *)
(***************************************************************************)
EXTENDS Integers, Sequences, FiniteSets, TLC

VARIABLES
    op,            \* the entry point this run calls
    pc,            \* position of the call: "start", "awaiting", "responded", "done"
    date_time,     \* argument of TimeRange::try_from
    time_range,    \* Option<Result<TimeRange, Error>>: what try_from returned
    ldm_arg,       \* <<year, month>>: arguments of last_day_of_month
    ldm_ret,       \* Option<u32>: what last_day_of_month returned
    data_points,   \* Option<Vec<Datapoint>>: argument of aggregate_data_points
    client,        \* which Aggregate implementation serves aggregate_metrics
    requests,      \* the GetMetricStatisticsInput values sent so far
    response,      \* Option<Result<GetMetricStatisticsOutput, RusotoError>>
    agg_passes,    \* number of aggregation passes run by this call
    result,        \* Option<Result<AggregatedMetrics, Error>>
    ec2_requests,  \* the DescribeInstancesRequest values sent so far
    ec2_response,  \* Option<Result<DescribeInstancesResult, RusotoError>>
    ec2_result     \* Option<Result<Vec<MachineInstance>, Error>>

vars == <<op, pc, date_time, time_range, ldm_arg, ldm_ret, data_points, client,
          requests, response, agg_passes, result, ec2_requests, ec2_response,
          ec2_result>>

----------------------------------------------------------------------------
(* Bounds of the model *)

\* the modelled reference instants span the years 2019 .. 2019 + YearSpan
YearSpan == 2
\* longest data-point list handed to aggregate_data_points
MaxPoints == 3
\* most reservations in a describe-instances page, and most instances in one
MaxReservations == 2
MaxInstances == 2

----------------------------------------------------------------------------
(* Option and Result *)

None == <<>>
Some(x) == <<x>>
IsSome(o) == Len(o) = 1
Unwrap(o) == o[1]
UnwrapOr(o, dflt) == IF IsSome(o) THEN o[1] ELSE dflt

Ok(x) == [ok |-> TRUE, val |-> x]
Err(e) == [ok |-> FALSE, err |-> e]

\* error.rs: enum MetricsNotifierError
NoneValue == "NoneValue"
ToPrimitive == "ToPrimitive"
TryFromIntError == "TryFromIntError"
GetMetricsError(e) == <<"GetMetricsError", e>>
DescribeInstancesError(e) == <<"DescribeInstancesError", e>>

----------------------------------------------------------------------------
(* chrono: NaiveDate, kept as year and ordinal (day of the year) *)

IsLeapYear(y) == (y % 4 = 0 /\ y % 100 # 0) \/ y % 400 = 0
DaysInYear(y) == IF IsLeapYear(y) THEN 366 ELSE 365

\* ordinal of the day before the first of month m (m = 13: the whole year)
DaysBefore(y, m) ==
    <<0, 31, 59, 90, 120, 151, 181, 212, 243, 273, 304, 334, 365>>[m]
    + (IF m > 2 /\ IsLeapYear(y) THEN 1 ELSE 0)

\* NaiveDate::from_ymd_opt: None when month or day is out of range
NaiveDateFromYmdOpt(y, m, d) ==
    IF m \in 1..12 /\ d >= 1 /\ d <= DaysBefore(y, m + 1) - DaysBefore(y, m)
    THEN Some([year |-> y, ordinal |-> DaysBefore(y, m) + d])
    ELSE None

\* NaiveDate::from_ymd: as from_ymd_opt, for a date that exists
NaiveDateFromYmd(y, m, d) == Unwrap(NaiveDateFromYmdOpt(y, m, d))

\* NaiveDate::pred / succ: the previous / next calendar day
NaiveDatePred(date) ==
    IF date.ordinal > 1
    THEN [year |-> date.year, ordinal |-> date.ordinal - 1]
    ELSE [year |-> date.year - 1, ordinal |-> DaysInYear(date.year - 1)]

NaiveDateSucc(date) ==
    IF date.ordinal < DaysInYear(date.year)
    THEN [year |-> date.year, ordinal |-> date.ordinal + 1]
    ELSE [year |-> date.year + 1, ordinal |-> 1]

\* Datelike::month / day of a NaiveDate
NaiveDateMonth(date) ==
    CHOOSE m \in 1..12 :
        /\ DaysBefore(date.year, m) < date.ordinal
        /\ date.ordinal <= DaysBefore(date.year, m + 1)

NaiveDateDay(date) == date.ordinal - DaysBefore(date.year, NaiveDateMonth(date))

\* NaiveDate::and_hms: the naive date-time at h:m:s of the date
AndHms(date, h, m, s) == [date |-> date, secs |-> h * 3600 + m * 60 + s]

----------------------------------------------------------------------------
(* chrono: DateTime<Utc>, FixedOffset *)

SecondsPerDay == 24 * 3600

\* FixedOffset::east(9 * 3600)
tokyo == 9 * 3600

\* the naive date-time `offset` seconds (|offset| < one day) after dt
ShiftSeconds(dt, offset) ==
    LET s == dt.secs + offset IN
    IF s >= SecondsPerDay
    THEN [date |-> NaiveDateSucc(dt.date), secs |-> s - SecondsPerDay]
    ELSE IF s < 0
    THEN [date |-> NaiveDatePred(dt.date), secs |-> s + SecondsPerDay]
    ELSE [date |-> dt.date, secs |-> s]

\* DateTime<Utc>::with_timezone(&tokyo) followed by naive_local(): the wall
\* clock of the instant in the fixed offset
LocalDateTime(utc, offset) == ShiftSeconds(utc, offset)

\* FixedOffset::from_local_datetime(..).single(): a fixed offset maps every
\* wall-clock value to exactly one instant, offset seconds earlier in UTC
FromLocalDatetimeSingle(offset, local) == Some(ShiftSeconds(local, 0 - offset))

\* ordering of instants
DateTimeLe(a, b) ==
    \/ a.date.year < b.date.year
    \/ /\ a.date.year = b.date.year
       /\ \/ a.date.ordinal < b.date.ordinal
          \/ a.date.ordinal = b.date.ordinal /\ a.secs <= b.secs

----------------------------------------------------------------------------
(* time_range.rs *)

\* the plausible slip of forgetting .pred(): day() of the first of next month
last_day_of_month_no_pred(year, month) ==
    NaiveDateDay(UnwrapOr(NaiveDateFromYmdOpt(year, month + 1, 1),
                          NaiveDateFromYmd(year + 1, 1, 1)))

\* TimeRange::last_day_of_month
last_day_of_month(year, month) ==
    NaiveDateDay(NaiveDatePred(
        UnwrapOr(NaiveDateFromYmdOpt(year, month + 1, 1),
                 NaiveDateFromYmd(year + 1, 1, 1))))

\* the plausible slip of taking year and month of the UTC instant, not of `now`
try_from_utc_month(dt) ==
    LET start == FromLocalDatetimeSingle(tokyo,
                    AndHms(NaiveDateFromYmd(dt.date.year, NaiveDateMonth(dt.date), 1),
                           0, 0, 0))
        end == FromLocalDatetimeSingle(tokyo,
                    AndHms(NaiveDateFromYmd(dt.date.year, NaiveDateMonth(dt.date),
                               last_day_of_month(dt.date.year, NaiveDateMonth(dt.date))),
                           23, 59, 59))
    IN Ok([start |-> Unwrap(start), end |-> Unwrap(end)])

\* the plausible slip of ending the window at 00:00:00 of the last day
try_from_end_at_midnight(dt) ==
    LET now == LocalDateTime(dt, tokyo)
        year == now.date.year
        month == NaiveDateMonth(now.date)
        start == FromLocalDatetimeSingle(tokyo,
                    AndHms(NaiveDateFromYmd(year, month, 1), 0, 0, 0))
        end == FromLocalDatetimeSingle(tokyo,
                    AndHms(NaiveDateFromYmd(year, month, last_day_of_month(year, month)),
                           0, 0, 0))
    IN Ok([start |-> Unwrap(start), end |-> Unwrap(end)])

\* impl TryFrom<DateTime<Utc>> for TimeRange
try_from(dt) ==
    LET now == LocalDateTime(dt, tokyo)
        year == now.date.year
        month == NaiveDateMonth(now.date)
        start == FromLocalDatetimeSingle(tokyo,
                    AndHms(NaiveDateFromYmd(year, month, 1), 0, 0, 0))
        end == FromLocalDatetimeSingle(tokyo,
                    AndHms(NaiveDateFromYmd(year, month, last_day_of_month(year, month)),
                           23, 59, 59))
    IN IF ~IsSome(start) THEN Err(NoneValue)
       ELSE IF ~IsSome(end) THEN Err(NoneValue)
       ELSE Ok([start |-> Unwrap(start), end |-> Unwrap(end)])

----------------------------------------------------------------------------
(* f64 and BigDecimal *)

RECURSIVE Gcd(_, _)
Gcd(a, b) == IF b = 0 THEN a ELSE Gcd(b, a % b)
Abs(x) == IF x < 0 THEN 0 - x ELSE x

\* the fraction n/d (d > 0) in lowest terms
Reduce(n, d) == LET g == Gcd(Abs(n), d) IN <<n \div g, d \div g>>

\* f64 values: the finite value n/d, NaN, +infinity, -infinity
Fin(n, d) == LET r == Reduce(n, d) IN [k |-> "fin", n |-> r[1], d |-> r[2]]
NaN == [k |-> "nan", n |-> 0, d |-> 1]
PInf == [k |-> "pinf", n |-> 0, d |-> 1]
NInf == [k |-> "ninf", n |-> 0, d |-> 1]
\* a decimal literal with one fractional digit, such as 55.5 = Tenths(555)
Tenths(t) == Fin(t, 10)

\* a < b on f64 (false whenever an operand is NaN)
F64Lt(a, b) ==
    /\ a.k # "nan" /\ b.k # "nan"
    /\ \/ a.k = "ninf" /\ b.k # "ninf"
       \/ b.k = "pinf" /\ a.k # "pinf"
       \/ a.k = "fin" /\ b.k = "fin" /\ a.n * b.d < b.n * a.d

\* f64::min / f64::max: a NaN operand is ignored in favour of the other one
F64Min(a, b) == IF a.k = "nan" THEN b ELSE IF b.k = "nan" THEN a
                ELSE IF F64Lt(b, a) THEN b ELSE a
F64Max(a, b) == IF a.k = "nan" THEN b ELSE IF b.k = "nan" THEN a
                ELSE IF F64Lt(a, b) THEN b ELSE a

\* BigDecimal::from(n) of an integer
BigDecimalFrom(n) == <<n, 1>>
\* BigDecimal::from_f64 as section 4.2 step 3 of the specification describes
\* it: Some(decimal) when the value is representable as a decimal, the decimal
\* being the one the f64 is written as (55.5 gives 55.5), and None when it is
\* not representable, which is the case the source answers with
\* map_or(BigDecimal::from(0), ..). NaN and the infinities are the f64 values
\* that are no decimal number. A crate version that panics on them instead
\* returns nothing at all for such an input; that outcome is not modelled.
BigDecimalFromF64(x) == IF x.k = "fin" THEN Some(<<x.n, x.d>>) ELSE None
\* Add::add and Div::div of BigDecimal (the divisor is never zero here)
BigDecimalAdd(a, b) == Reduce(a[1] * b[2] + b[1] * a[2], a[2] * b[2])
BigDecimalDiv(a, b) == Reduce(a[1] * b[2], a[2] * b[1])
\* ToPrimitive::to_f64 as section 4.2 step 5 of the specification describes
\* it: Some(the f64 nearest to the decimal) when the decimal is representable
\* as a floating value, None otherwise. The decimal converted here is a mean of
\* finite f64 values and zeros, so it lies between the least and the greatest
\* of them, inside the range of f64: the conversion answers Some for every
\* input this function can be given, and the ToPrimitive error of the source
\* has no input that raises it. The rounding of the crate's bounded-precision
\* quotient (1/3 has no finite decimal expansion) is folded into "nearest to".
BigDecimalToF64(a) == Some(Fin(a[1], a[2]))

\* u32::try_from(usize): fails when the length does not fit 32 bits
U32TryFrom(n) == IF n \div 65536 < 65536 THEN Ok(n) ELSE Err(TryFromIntError)

----------------------------------------------------------------------------
(* metric.rs *)

\* the plausible slip of returning the untouched running sentinels
AggregatedMetricsSentinels ==
    [average |-> Fin(0, 1), maximum |-> Fin(0, 1), minimum |-> Fin(100, 1)]

\* impl Default for AggregatedMetrics
AggregatedMetricsDefault ==
    [average |-> Fin(0, 1), maximum |-> Fin(0, 1), minimum |-> Fin(0, 1)]

----------------------------------------------------------------------------
(* cloud_watch_metrics_client.rs (client.rs holds the same function) *)

Datapoint(avg, min, max) == [average |-> avg, minimum |-> min, maximum |-> max]

\* the plausible slip of skipping an absent minimum / maximum instead of failing
aggregate_step_skip_absent(acc, data_point) ==
    IF ~IsSome(data_point.average) THEN Err(NoneValue)
    ELSE Ok([total |-> BigDecimalAdd(acc.total,
                          UnwrapOr(BigDecimalFromF64(Unwrap(data_point.average)),
                                   BigDecimalFrom(0))),
             minimum |-> F64Min(acc.minimum, UnwrapOr(data_point.minimum, acc.minimum)),
             maximum |-> F64Max(acc.maximum, UnwrapOr(data_point.maximum, acc.maximum))])

\* the plausible slip of assigning the point's extremes instead of folding them
aggregate_step_overwrite(acc, data_point) ==
    IF ~IsSome(data_point.average) THEN Err(NoneValue)
    ELSE IF ~IsSome(data_point.minimum) THEN Err(NoneValue)
    ELSE IF ~IsSome(data_point.maximum) THEN Err(NoneValue)
    ELSE Ok([total |-> BigDecimalAdd(acc.total,
                          UnwrapOr(BigDecimalFromF64(Unwrap(data_point.average)),
                                   BigDecimalFrom(0))),
             minimum |-> Unwrap(data_point.minimum),
             maximum |-> Unwrap(data_point.maximum)])

\* one iteration of the loop of aggregate_data_points: the three `?` in
\* source order, then the updated accumulators
aggregate_step(acc, data_point) ==
    IF ~IsSome(data_point.average) THEN Err(NoneValue)
    ELSE IF ~IsSome(data_point.minimum) THEN Err(NoneValue)
    ELSE IF ~IsSome(data_point.maximum) THEN Err(NoneValue)
    ELSE Ok([total |-> BigDecimalAdd(acc.total,
                          UnwrapOr(BigDecimalFromF64(Unwrap(data_point.average)),
                                   BigDecimalFrom(0))),
             minimum |-> F64Min(acc.minimum, Unwrap(data_point.minimum)),
             maximum |-> F64Max(acc.maximum, Unwrap(data_point.maximum))])

\* the loop over the data points from index i on: the first failing
\* iteration ends it, otherwise the accumulators after the last point
RECURSIVE aggregate_loop(_, _, _)
aggregate_loop(points, i, acc) ==
    IF i > Len(points) THEN Ok(acc)
    ELSE LET step == aggregate_step(acc, points[i]) IN
         IF step.ok THEN aggregate_loop(points, i + 1, step.val) ELSE step

\* the plausible change of starting the running extremes at the first point's
\* values instead of the fixed sentinels
aggregate_data_points_from_first_point(dps) ==
    LET points == UnwrapOr(dps, <<>>) IN
    IF points = <<>> THEN Ok(AggregatedMetricsDefault)
    ELSE LET folded == aggregate_loop(points, 1,
                          [total |-> BigDecimalFrom(0),
                           minimum |-> UnwrapOr(points[1].minimum, Fin(100, 1)),
                           maximum |-> UnwrapOr(points[1].maximum, Fin(0, 1))])
         IN IF ~folded.ok THEN folded
            ELSE Ok([average |-> Unwrap(BigDecimalToF64(
                                    BigDecimalDiv(folded.val.total,
                                                  BigDecimalFrom(Len(points))))),
                     maximum |-> folded.val.maximum,
                     minimum |-> folded.val.minimum])

\* CloudWatchMetricsClient::aggregate_data_points
aggregate_data_points(dps) ==
    LET points == UnwrapOr(dps, <<>>) IN
    IF points = <<>> THEN Ok(AggregatedMetricsDefault)
    ELSE LET length == U32TryFrom(Len(points)) IN
         IF ~length.ok THEN length
         ELSE LET count == BigDecimalFrom(length.val)
                  folded == aggregate_loop(points, 1,
                                [total |-> BigDecimalFrom(0),
                                 minimum |-> Fin(100, 1),
                                 maximum |-> Fin(0, 1)])
              IN IF ~folded.ok THEN folded
                 ELSE LET decimal_average == BigDecimalDiv(folded.val.total, count)
                          average == BigDecimalToF64(decimal_average)
                      IN IF ~IsSome(average) THEN Err(ToPrimitive)
                         ELSE Ok([average |-> Unwrap(average),
                                  maximum |-> folded.val.maximum,
                                  minimum |-> folded.val.minimum])

----------------------------------------------------------------------------
(* DateTime::format("%Y-%m-%dT%H:%M:%SZ").to_string() *)

Digit(n) == <<"0", "1", "2", "3", "4", "5", "6", "7", "8", "9">>[n + 1]
\* %m %d %H %M %S: two digits, zero padded; %Y: four digits for these years
Pad2(n) == Digit((n \div 10) % 10) \o Digit(n % 10)
Pad4(n) == Pad2(n \div 100) \o Pad2(n % 100)

FormatDateTime(dt) ==
    Pad4(dt.date.year) \o "-" \o Pad2(NaiveDateMonth(dt.date)) \o "-"
    \o Pad2(NaiveDateDay(dt.date)) \o "T" \o Pad2(dt.secs \div 3600) \o ":"
    \o Pad2((dt.secs \div 60) % 60) \o ":" \o Pad2(dt.secs % 60) \o "Z"

----------------------------------------------------------------------------
(* aggregate_metrics: the request it builds *)

DEFAULT_STATISTICS == <<"Average", "Minimum", "Maximum">>

\* cloud_watch_metrics_client.rs: the GetMetricStatisticsInput of
\* CloudWatchMetricsClient::aggregate_metrics(&self, time_range)
CloudWatchRequest(range) ==
    [start_time |-> FormatDateTime(range.start),
     end_time |-> FormatDateTime(range.end),
     metric_name |-> "CPUUtilization",
     namespace |-> "AWS/EC2",
     period |-> 0,
     statistics |-> Some(DEFAULT_STATISTICS)]

\* client.rs: the GetMetricStatisticsInput of MetricsClient::aggregate_metrics(self),
\* which takes no time range and sends empty bounds
MetricsClientRequest ==
    [start_time |-> "",
     end_time |-> "",
     metric_name |-> "CPUUtilization",
     namespace |-> "AWS/EC2",
     period |-> 0,
     statistics |-> Some(DEFAULT_STATISTICS)]

\* the request the chosen implementation sends for the computed range
MetricRequest(impl, range) ==
    IF impl = "CloudWatchMetricsClient" THEN CloudWatchRequest(range)
    ELSE MetricsClientRequest

\* the plausible slip of turning a failed request into the default result
after_await_default(resp) ==
    IF resp.ok THEN aggregate_data_points(resp.val.datapoints)
    ELSE Ok(AggregatedMetricsDefault)

\* what aggregate_metrics returns once get_metric_statistics has answered:
\* `.await?` converts a failure with From into GetMetricsError, a success
\* goes to aggregate_data_points
after_await(resp) ==
    IF resp.ok THEN aggregate_data_points(resp.val.datapoints)
    ELSE Err(GetMetricsError(resp.err))

----------------------------------------------------------------------------
(* ec2_instance_client.rs *)

\* DescribeInstancesRequest { max_results: Some(20), ..default() }
DescribeRequest == [max_results |-> Some(20), next_token |-> None]

\* the inner loop: one MachineInstance per instance, NoneValue at the first
\* instance without an identifier
RECURSIVE push_instances(_, _, _)
push_instances(instances, i, machine_instances) ==
    IF i > Len(instances) THEN Ok(machine_instances)
    ELSE IF ~IsSome(instances[i].instance_id) THEN Err(NoneValue)
    ELSE push_instances(instances, i + 1,
             Append(machine_instances,
                    [instance_id |-> Unwrap(instances[i].instance_id)]))

\* the outer loop over the reservations
RECURSIVE push_reservations(_, _, _)
push_reservations(reservations, r, machine_instances) ==
    IF r > Len(reservations) THEN Ok(machine_instances)
    ELSE IF ~IsSome(reservations[r].instances) THEN Err(NoneValue)
    ELSE LET pushed == push_instances(Unwrap(reservations[r].instances), 1,
                                      machine_instances)
         IN IF pushed.ok THEN push_reservations(reservations, r + 1, pushed.val)
            ELSE pushed

\* the plausible slip of skipping an instance without an identifier
RECURSIVE skip_unidentified(_)
skip_unidentified(instances) ==
    IF instances = <<>> THEN <<>>
    ELSE (IF IsSome(Head(instances).instance_id)
          THEN <<[instance_id |-> Unwrap(Head(instances).instance_id)]>>
          ELSE <<>>) \o skip_unidentified(Tail(instances))

RECURSIVE skip_unidentified_all(_)
skip_unidentified_all(reservations) ==
    IF reservations = <<>> THEN <<>>
    ELSE skip_unidentified(UnwrapOr(Head(reservations).instances, <<>>))
         \o skip_unidentified_all(Tail(reservations))

collect_instances_skipping(resp) ==
    IF ~resp.ok THEN Err(DescribeInstancesError(resp.err))
    ELSE IF ~IsSome(resp.val.reservations) THEN Err(NoneValue)
    ELSE Ok(skip_unidentified_all(Unwrap(resp.val.reservations)))

\* what describe_all_instances returns once describe_instances has answered
collect_instances(resp) ==
    IF ~resp.ok THEN Err(DescribeInstancesError(resp.err))
    ELSE IF ~IsSome(resp.val.reservations) THEN Err(NoneValue)
    ELSE push_reservations(Unwrap(resp.val.reservations), 1, <<>>)

----------------------------------------------------------------------------
(* Inputs of the model *)

\* two century years and the years 2019 .. 2019 + YearSpan
Years == {1900, 2000} \cup (2019..(2019 + YearSpan))

\* reference instants: every day of those years at 00:00:00, 14:59:59,
\* 15:00:00 (midnight in UTC+9) and 23:59:59 UTC
Instants ==
    {[date |-> [year |-> y, ordinal |-> o], secs |-> s] :
        y \in Years, o \in 1..366, s \in {0, 53999, 54000, 86399}}
    \ {[date |-> [year |-> y, ordinal |-> 366], secs |-> s] :
        y \in {z \in Years : ~IsLeapYear(z)}, s \in {0, 53999, 54000, 86399}}

\* the reference instants of the two aggregate_metrics tests and of try_from's
PipelineInstants ==
    {AndHms(NaiveDateFromYmd(2019, 1, 12), 0, 0, 0),
     AndHms(NaiveDateFromYmd(2020, 12, 1), 15, 0, 0),
     AndHms(NaiveDateFromYmd(2020, 2, 29), 15, 0, 0)}

\* data points: the three of test_aggregate_data_points, one wholly above 100,
\* one wholly below 0, each field absent in turn, all absent, and non-finite
\* values (the XML deserializer parses "NaN" and "inf" into f64)
SamplePoints ==
    {Datapoint(Some(Tenths(555)), Some(Tenths(110)), Some(Tenths(910))),
     Datapoint(Some(Tenths(288)), Some(Tenths(130)), Some(Tenths(920))),
     Datapoint(Some(Tenths(402)), Some(Tenths(120)), Some(Tenths(930))),
     Datapoint(Some(Tenths(1500)), Some(Tenths(1500)), Some(Tenths(2000))),
     Datapoint(Some(Tenths(0 - 50)), Some(Tenths(0 - 70)), Some(Tenths(0 - 20))),
     Datapoint(None, Some(Tenths(110)), Some(Tenths(910))),
     Datapoint(Some(Tenths(555)), None, Some(Tenths(910))),
     Datapoint(Some(Tenths(555)), Some(Tenths(110)), None),
     Datapoint(None, None, None),
     Datapoint(Some(NaN), Some(Tenths(110)), Some(Tenths(910))),
     Datapoint(Some(PInf), Some(Tenths(130)), Some(Tenths(920))),
     Datapoint(Some(Tenths(288)), Some(NaN), Some(NaN)),
     Datapoint(Some(Tenths(402)), Some(NInf), Some(PInf))}

ListsUpTo(S, n) == UNION {[1..k -> S] : k \in 0..n}

\* Option<Vec<Datapoint>> values handed to aggregate_data_points
DataPointInputs == {None} \cup {Some(l) : l \in ListsUpTo(SamplePoints, MaxPoints)}

\* failures of the outbound request: a non-2xx answer or a transport failure
UpstreamErrors == {"Unknown(400)", "Unknown(500)", "HttpDispatch"}

\* answers to get_metric_statistics
MetricResponses ==
    {Ok([datapoints |-> None])}
    \cup {Ok([datapoints |-> Some(l)]) : l \in ListsUpTo(SamplePoints, MaxPoints - 1)}
    \cup {Err(e) : e \in UpstreamErrors}

\* answers to describe_instances
InstanceRecords == {[instance_id |-> None], [instance_id |-> Some("i-1234567890abcdef0")],
                    [instance_id |-> Some("i-0fedcba0987654321")]}
ReservationRecords ==
    {[instances |-> None]}
    \cup {[instances |-> Some(l)] : l \in ListsUpTo(InstanceRecords, MaxInstances)}
DescribeResponses ==
    {Ok([reservations |-> None, next_token |-> t]) : t \in {None, Some("page-2")}}
    \cup {Ok([reservations |-> Some(l), next_token |-> t]) :
            l \in ListsUpTo(ReservationRecords, MaxReservations),
            t \in {None, Some("page-2")}}
    \cup {Err(e) : e \in UpstreamErrors}

Ops == {"try_from", "last_day_of_month", "aggregate_data_points",
        "aggregate_metrics", "describe_all_instances"}
Clients == {"CloudWatchMetricsClient", "MetricsClient"}

----------------------------------------------------------------------------
(* The state machine: one call of one entry point per behaviour *)

Init ==
    /\ op \in Ops
    /\ pc = "start"
    /\ date_time \in (IF op = "try_from" THEN Instants
                      ELSE IF op = "aggregate_metrics" THEN PipelineInstants
                      ELSE {AndHms(NaiveDateFromYmd(2019, 1, 12), 0, 0, 0)})
    /\ time_range = None
    /\ ldm_arg \in (IF op = "last_day_of_month" THEN Years \X (1..12)
                    ELSE {<<2019, 1>>})
    /\ ldm_ret = None
    /\ data_points \in (IF op = "aggregate_data_points" THEN DataPointInputs
                        ELSE {None})
    /\ client \in (IF op = "aggregate_metrics" THEN Clients
                   ELSE {"CloudWatchMetricsClient"})
    /\ requests = <<>>
    /\ response = None
    /\ agg_passes = 0
    /\ result = None
    /\ ec2_requests = <<>>
    /\ ec2_response = None
    /\ ec2_result = None

\* TimeRange::try_from(date_time), called on its own or ahead of aggregate_metrics
TryFrom ==
    /\ op \in {"try_from", "aggregate_metrics"}
    /\ pc = "start"
    /\ time_range' = Some(try_from(date_time))
    /\ pc' = IF op = "try_from" THEN "done" ELSE "ranged"
    /\ UNCHANGED <<op, date_time, ldm_arg, ldm_ret, data_points, client, requests,
                   response, agg_passes, result, ec2_requests, ec2_response,
                   ec2_result>>

\* TimeRange::last_day_of_month(year, month)
LastDayOfMonth ==
    /\ op = "last_day_of_month"
    /\ pc = "start"
    /\ ldm_ret' = Some(last_day_of_month(ldm_arg[1], ldm_arg[2]))
    /\ pc' = "done"
    /\ UNCHANGED <<op, date_time, time_range, ldm_arg, data_points, client,
                   requests, response, agg_passes, result, ec2_requests,
                   ec2_response, ec2_result>>

\* aggregate_data_points(data_points), called directly as the unit tests do
AggregateDataPoints ==
    /\ op = "aggregate_data_points"
    /\ pc = "start"
    /\ result' = Some(aggregate_data_points(data_points))
    /\ agg_passes' = agg_passes + 1
    /\ pc' = "done"
    /\ UNCHANGED <<op, date_time, time_range, ldm_arg, ldm_ret, data_points,
                   client, requests, response, ec2_requests, ec2_response,
                   ec2_result>>

\* aggregate_metrics up to its await: build the input, send the request
SendGetMetricStatistics ==
    /\ op = "aggregate_metrics"
    /\ pc = "ranged"
    /\ Unwrap(time_range).ok
    /\ requests' = Append(requests, MetricRequest(client, Unwrap(time_range).val))
    /\ pc' = "awaiting"
    /\ UNCHANGED <<op, date_time, time_range, ldm_arg, ldm_ret, data_points,
                   client, response, agg_passes, result, ec2_requests,
                   ec2_response, ec2_result>>

\* the metrics service answers the request
GetMetricStatisticsAnswers ==
    /\ op = "aggregate_metrics"
    /\ pc = "awaiting"
    /\ \E resp \in MetricResponses : response' = Some(resp)
    /\ pc' = "responded"
    /\ UNCHANGED <<op, date_time, time_range, ldm_arg, ldm_ret, data_points,
                   client, requests, agg_passes, result, ec2_requests,
                   ec2_response, ec2_result>>

\* the plausible change of sending the request once more after a failure
AggregateMetricsResumeRetrying ==
    /\ op = "aggregate_metrics"
    /\ pc = "responded"
    /\ IF ~Unwrap(response).ok /\ Len(requests) < 2
       THEN /\ requests' = Append(requests, requests[1])
            /\ pc' = "awaiting"
            /\ UNCHANGED <<result, data_points, agg_passes>>
       ELSE /\ result' = Some(after_await(Unwrap(response)))
            /\ data_points' = IF Unwrap(response).ok
                              THEN Unwrap(response).val.datapoints ELSE data_points
            /\ agg_passes' = IF Unwrap(response).ok THEN agg_passes + 1 ELSE agg_passes
            /\ pc' = "done"
            /\ UNCHANGED requests
    /\ UNCHANGED <<op, date_time, time_range, ldm_arg, ldm_ret, client,
                   response, ec2_requests, ec2_response, ec2_result>>

\* aggregate_metrics after its await: `?` on the answer, then the aggregation
AggregateMetricsResume ==
    /\ op = "aggregate_metrics"
    /\ pc = "responded"
    /\ result' = Some(after_await(Unwrap(response)))
    /\ data_points' = IF Unwrap(response).ok THEN Unwrap(response).val.datapoints
                      ELSE data_points
    /\ agg_passes' = IF Unwrap(response).ok THEN agg_passes + 1 ELSE agg_passes
    /\ pc' = "done"
    /\ UNCHANGED <<op, date_time, time_range, ldm_arg, ldm_ret, client, requests,
                   response, ec2_requests, ec2_response, ec2_result>>

\* describe_all_instances up to its await: one request, capped at 20 results
SendDescribeInstances ==
    /\ op = "describe_all_instances"
    /\ pc = "start"
    /\ ec2_requests' = Append(ec2_requests, DescribeRequest)
    /\ pc' = "awaiting"
    /\ UNCHANGED <<op, date_time, time_range, ldm_arg, ldm_ret, data_points,
                   client, requests, response, agg_passes, result, ec2_response,
                   ec2_result>>

\* the EC2 service answers the request
DescribeInstancesAnswers ==
    /\ op = "describe_all_instances"
    /\ pc = "awaiting"
    /\ \E resp \in DescribeResponses : ec2_response' = Some(resp)
    /\ pc' = "responded"
    /\ UNCHANGED <<op, date_time, time_range, ldm_arg, ldm_ret, data_points,
                   client, requests, response, agg_passes, result, ec2_requests,
                   ec2_result>>

\* the plausible change of following the continuation token of the answer
DescribeAllInstancesResumePaging ==
    /\ op = "describe_all_instances"
    /\ pc = "responded"
    /\ IF /\ Unwrap(ec2_response).ok
          /\ IsSome(Unwrap(ec2_response).val.next_token)
          /\ Len(ec2_requests) < 2
       THEN /\ ec2_requests' = Append(ec2_requests,
                                  [max_results |-> Some(20),
                                   next_token |-> Unwrap(ec2_response).val.next_token])
            /\ pc' = "awaiting"
            /\ UNCHANGED ec2_result
       ELSE /\ ec2_result' = Some(collect_instances(Unwrap(ec2_response)))
            /\ pc' = "done"
            /\ UNCHANGED ec2_requests
    /\ UNCHANGED <<op, date_time, time_range, ldm_arg, ldm_ret, data_points,
                   client, requests, response, agg_passes, result, ec2_response>>

\* describe_all_instances after its await: map_err + `?`, then the two loops
DescribeAllInstancesResume ==
    /\ op = "describe_all_instances"
    /\ pc = "responded"
    /\ ec2_result' = Some(collect_instances(Unwrap(ec2_response)))
    /\ pc' = "done"
    /\ UNCHANGED <<op, date_time, time_range, ldm_arg, ldm_ret, data_points,
                   client, requests, response, agg_passes, result, ec2_requests,
                   ec2_response>>

Next ==
    \/ TryFrom
    \/ LastDayOfMonth
    \/ AggregateDataPoints
    \/ SendGetMetricStatistics
    \/ GetMetricStatisticsAnswers
    \/ AggregateMetricsResume
    \/ SendDescribeInstances
    \/ DescribeInstancesAnswers
    \/ DescribeAllInstancesResume

Spec == Init /\ [][Next]_vars

----------------------------------------------------------------------------
(* Vocabulary of the properties *)

\* aggregate_data_points has returned for the list held in data_points
Aggregated == pc = "done" /\ agg_passes = 1 /\ IsSome(result)

\* every data point of the list carries average, minimum and maximum
AllPresent(points) ==
    \A i \in 1..Len(points) :
        IsSome(points[i].average) /\ IsSome(points[i].minimum)
        /\ IsSome(points[i].maximum)

\* every minimum and maximum of the list is a number (not NaN), so that a
\* smallest and a largest value exist
AllOrdered(points) ==
    \A i \in 1..Len(points) :
        Unwrap(points[i].minimum).k # "nan" /\ Unwrap(points[i].maximum).k # "nan"

\* m is the smallest of the points' minimum values / largest of their maximums
IsSmallestMinimum(m, points) ==
    /\ \E i \in 1..Len(points) : Unwrap(points[i].minimum) = m
    /\ \A i \in 1..Len(points) : ~F64Lt(Unwrap(points[i].minimum), m)
IsLargestMaximum(m, points) ==
    /\ \E i \in 1..Len(points) : Unwrap(points[i].maximum) = m
    /\ \A i \in 1..Len(points) : ~F64Lt(m, Unwrap(points[i].maximum))

\* the sum, in tenths, of the finite averages of points[1..i]
RECURSIVE SumOfFiniteTenths(_, _)
SumOfFiniteTenths(points, i) ==
    IF i = 0 THEN 0
    ELSE SumOfFiniteTenths(points, i - 1)
         + (LET a == Unwrap(points[i].average)
            IN IF a.k = "fin" THEN (a.n * 10) \div a.d ELSE 0)

AllAveragesFinite(points) ==
    \A i \in 1..Len(points) : Unwrap(points[i].average).k = "fin"

\* days of month m of year y, by the calendar rule
CalendarDays(y, m) ==
    IF m \in {4, 6, 9, 11} THEN 30
    ELSE IF m # 2 THEN 31
    ELSE IF (y % 4 = 0 /\ y % 100 # 0) \/ y % 400 = 0 THEN 29
    ELSE 28

\* the instance identifiers of a reservation list, reservation by reservation
RECURSIVE InstanceIdsInOrder(_)
InstanceIdsInOrder(reservations) ==
    IF reservations = <<>> THEN <<>>
    ELSE [i \in 1..Len(Unwrap(Head(reservations).instances)) |->
             [instance_id |-> Unwrap(Unwrap(Head(reservations).instances)[i].instance_id)]]
         \o InstanceIdsInOrder(Tail(reservations))

\* some instance record of the answer lacks its identifier
SomeRecordUnidentified(reservations) ==
    \E r \in 1..Len(reservations) :
        /\ IsSome(reservations[r].instances)
        /\ \E i \in 1..Len(Unwrap(reservations[r].instances)) :
              ~IsSome(Unwrap(reservations[r].instances)[i].instance_id)

\* some reservation of the answer lacks its instance list
SomeReservationWithoutList(reservations) ==
    \E r \in 1..Len(reservations) : ~IsSome(reservations[r].instances)

----------------------------------------------------------------------------
(* C1 *)

\* C1: for every non-empty list whose points all carry the three fields (and
\* whose extremes are numbers), aggregate_data_points returns Ok with minimum
\* equal to the smallest per-point minimum and maximum equal to the largest
\* per-point maximum, whatever the values, inside 0..100 or not.
C1_ExtremesExact ==
    (Aggregated /\ IsSome(data_points) /\ Unwrap(data_points) # <<>>
       /\ AllPresent(Unwrap(data_points)) /\ AllOrdered(Unwrap(data_points)))
    => /\ Unwrap(result).ok
       /\ IsSmallestMinimum(Unwrap(result).val.minimum, Unwrap(data_points))
       /\ IsLargestMaximum(Unwrap(result).val.maximum, Unwrap(data_points))

----------------------------------------------------------------------------
(* C2 *)

\* C2: a list holding, at any position, a data point with an absent average,
\* minimum or maximum makes aggregate_data_points return the error NoneValue,
\* never an Ok result built from the other points.
C2_AbsentFieldIsNoneValue ==
    (Aggregated /\ IsSome(data_points) /\ ~AllPresent(Unwrap(data_points)))
    => Unwrap(result) = Err(NoneValue)

\* a complete point first, an incomplete one last, and the call failed
C2_Witness ==
    /\ Aggregated /\ IsSome(data_points) /\ Len(Unwrap(data_points)) = 3
    /\ AllPresent(SubSeq(Unwrap(data_points), 1, 2))
    /\ IsSome(Unwrap(data_points)[3].average)
    /\ ~IsSome(Unwrap(data_points)[3].minimum)
    /\ Unwrap(result) = Err(NoneValue)

----------------------------------------------------------------------------
(* C3 *)

\* C3: for every reference instant try_from returns Ok with start <= end;
\* in UTC+9 wall-clock time start is 00:00:00 of day 1 and end is 23:59:59 of
\* the last day of the month holding the reference instant in UTC+9, so both
\* bounds lie 9 hours earlier in UTC, and a reference at or after 15:00 UTC on
\* the last UTC day of a month belongs to the window that starts at 15:00 UTC
\* of that very day.
C3_TimeRange ==
    (op = "try_from" /\ IsSome(time_range))
    => LET r == Unwrap(time_range)
           nine_hours == 9 * 3600
           local == ShiftSeconds(date_time, nine_hours)
           y == local.date.year
           m == NaiveDateMonth(local.date)
           utc_m == NaiveDateMonth(date_time.date)
       IN /\ r.ok
          /\ DateTimeLe(r.val.start, r.val.end)
          /\ ShiftSeconds(r.val.start, nine_hours) =
                [date |-> [year |-> y, ordinal |-> DaysBefore(y, m) + 1], secs |-> 0]
          /\ ShiftSeconds(r.val.end, nine_hours) =
                [date |-> [year |-> y, ordinal |-> DaysBefore(y, m) + CalendarDays(y, m)],
                 secs |-> 86399]
          /\ (/\ NaiveDateDay(date_time.date) = CalendarDays(date_time.date.year, utc_m)
              /\ date_time.secs >= 15 * 3600)
             => r.val.start = [date |-> date_time.date, secs |-> 15 * 3600]

\* 31 December 15:00:00 UTC: the window is January of the following year
C3_Witness ==
    /\ op = "try_from" /\ IsSome(time_range) /\ Unwrap(time_range).ok
    /\ date_time = AndHms(NaiveDateFromYmd(2020, 12, 31), 15, 0, 0)
    /\ Unwrap(time_range).val.start = date_time
    /\ Unwrap(time_range).val.end = AndHms(NaiveDateFromYmd(2021, 1, 31), 14, 59, 59)

----------------------------------------------------------------------------
(* C4 *)

\* C4: for an empty data-point list, or no list at all, aggregate_data_points
\* returns Ok with average, maximum and minimum all 0.0 and no error.
C4_EmptyIsZero ==
    (Aggregated /\ UnwrapOr(data_points, <<>>) = <<>>)
    => Unwrap(result) =
          Ok([average |-> [k |-> "fin", n |-> 0, d |-> 1],
              maximum |-> [k |-> "fin", n |-> 0, d |-> 1],
              minimum |-> [k |-> "fin", n |-> 0, d |-> 1]])

\* the metrics service answered without a data-point list
C4_Witness ==
    /\ Aggregated /\ op = "aggregate_metrics" /\ data_points = None
    /\ Unwrap(result).ok
    /\ Unwrap(result).val.minimum = [k |-> "fin", n |-> 0, d |-> 1]

----------------------------------------------------------------------------
(* C5 *)

\* C5: when the get_metric_statistics request fails, aggregate_metrics returns
\* the error GetMetricsError wrapping the upstream failure, never Ok.
C5_FetchFailureSurfaces ==
    (op = "aggregate_metrics" /\ pc = "done" /\ ~Unwrap(response).ok)
    => /\ IsSome(result)
       /\ ~Unwrap(result).ok
       /\ Unwrap(result).err = <<"GetMetricsError", Unwrap(response).err>>

\* a 400 answer ended the call with the wrapped failure
C5_Witness ==
    /\ op = "aggregate_metrics" /\ pc = "done"
    /\ Unwrap(response) = Err("Unknown(400)")
    /\ Unwrap(result) = Err(<<"GetMetricsError", "Unknown(400)">>)

----------------------------------------------------------------------------
(* C6 *)

\* C6: every request sent by aggregate_metrics carries as start_time and
\* end_time the start and end of the computed reporting time range, formatted
\* as YYYY-MM-DDTHH:MM:SSZ.
C6_RequestCarriesRange ==
    \A i \in 1..Len(requests) :
        /\ IsSome(time_range) /\ Unwrap(time_range).ok
        /\ requests[i].start_time = FormatDateTime(Unwrap(time_range).val.start)
        /\ requests[i].end_time = FormatDateTime(Unwrap(time_range).val.end)

----------------------------------------------------------------------------
(* C7 *)

\* C7: for every non-empty list whose points all carry the three fields,
\* the returned average is the arithmetic mean of the per-point average
\* values: their exact sum divided by the number of points (a mean that is
\* no finite number whenever one of the averages is NaN or infinite).
\* The code does not keep to this: a present average that has no decimal
\* value enters the sum as zero, and a finite average comes back.
C7_AverageIsMeanOfAverages ==
    (Aggregated /\ IsSome(data_points) /\ Unwrap(data_points) # <<>>
       /\ AllPresent(Unwrap(data_points)))
    => LET points == Unwrap(data_points) IN
       /\ Unwrap(result).ok
       /\ IF AllAveragesFinite(points)
          THEN Unwrap(result).val.average =
                  Fin(SumOfFiniteTenths(points, Len(points)), 10 * Len(points))
          ELSE Unwrap(result).val.average.k # "fin"

----------------------------------------------------------------------------
(* C8 *)

\* the list reordered by the permutation f of its indices
Permuted(points, f) == [i \in 1..Len(points) |-> points[f[i]]]

\* C8: aggregate_data_points returns the same outcome for a list and for each
\* of its permutations: the same Ok triple, or an error on both.
C8_PermutationInvariant ==
    (Aggregated /\ IsSome(data_points))
    => \A f \in Permutations(1..Len(Unwrap(data_points))) :
          LET other == aggregate_data_points(Some(Permuted(Unwrap(data_points), f)))
          IN IF Unwrap(result).ok THEN other = Unwrap(result) ELSE ~other.ok

\* three different complete points, aggregated to an Ok result
C8_Witness ==
    /\ Aggregated /\ IsSome(data_points) /\ Len(Unwrap(data_points)) = 3
    /\ Unwrap(data_points)[1] # Unwrap(data_points)[2]
    /\ Unwrap(data_points)[2] # Unwrap(data_points)[3]
    /\ Unwrap(data_points)[1] # Unwrap(data_points)[3]
    /\ Unwrap(data_points)[1].minimum = Some(Tenths(110))
    /\ Unwrap(result).ok
    /\ Unwrap(result).val.minimum = Tenths(110)

----------------------------------------------------------------------------
(* C9 *)

\* C9 as stated: when an instance record of the answer lacks its identifier
\* describe_all_instances returns NoneValue; otherwise it returns one
\* MachineInstance per instance record, in reservation then instance order.
C9_UnidentifiedOrAll ==
    (op = "describe_all_instances" /\ pc = "done" /\ Unwrap(ec2_response).ok)
    => LET reservations == UnwrapOr(Unwrap(ec2_response).val.reservations, <<>>)
           records == SelectSeq(reservations, LAMBDA r : IsSome(r.instances))
       IN IF SomeRecordUnidentified(reservations)
          THEN Unwrap(ec2_result) = Err(NoneValue)
          ELSE Unwrap(ec2_result) = Ok(InstanceIdsInOrder(records))

\* C9 amended: when the call succeeds and the answer lacks its reservation
\* list, or a reservation lacks its instance list, or an instance record lacks
\* its identifier, describe_all_instances returns NoneValue and no list;
\* otherwise it returns one MachineInstance per instance record, in
\* reservation then instance order. A failed call returns
\* DescribeInstancesError carrying the upstream error.
C9_AnythingAbsentOrAll ==
    (op = "describe_all_instances" /\ pc = "done")
    => IF ~Unwrap(ec2_response).ok
       THEN Unwrap(ec2_result) =
               Err(DescribeInstancesError(Unwrap(ec2_response).err))
       ELSE LET listed == Unwrap(ec2_response).val.reservations
            IN IF \/ ~IsSome(listed)
                  \/ SomeReservationWithoutList(Unwrap(listed))
                  \/ SomeRecordUnidentified(Unwrap(listed))
               THEN Unwrap(ec2_result) = Err(NoneValue)
               ELSE Unwrap(ec2_result) = Ok(InstanceIdsInOrder(Unwrap(listed)))

\* two reservations, the second holding two instances, listed in order
C9_Witness ==
    /\ op = "describe_all_instances" /\ pc = "done" /\ Unwrap(ec2_response).ok
    /\ IsSome(Unwrap(ec2_response).val.reservations)
    /\ Len(Unwrap(Unwrap(ec2_response).val.reservations)) = 2
    /\ Unwrap(ec2_result) =
          Ok(<<[instance_id |-> "i-1234567890abcdef0"],
               [instance_id |-> "i-0fedcba0987654321"],
               [instance_id |-> "i-1234567890abcdef0"]>>)
    /\ Unwrap(Unwrap(ec2_response).val.reservations)[1].instances =
          Some(<<[instance_id |-> Some("i-1234567890abcdef0")]>>)

----------------------------------------------------------------------------
(* C10 *)

\* C10: for every year and every month 1..12 last_day_of_month returns the
\* number of days of the month: 31 for December, 30 or 31 for the other
\* fixed-length months, and for February 29 in leap years, 28 otherwise.
C10_LastDayOfMonth ==
    (op = "last_day_of_month" /\ IsSome(ldm_ret))
    => Unwrap(ldm_ret) = CalendarDays(ldm_arg[1], ldm_arg[2])

\* December, reached through the roll-over to 1 January of the next year
C10_Witness ==
    /\ op = "last_day_of_month" /\ ldm_arg = <<2019, 12>> /\ ldm_ret = Some(31)

----------------------------------------------------------------------------
(* C11 *)

\* C11: for every non-empty list whose points all carry the three fields the
\* returned minimum is min(100.0, all per-point minimums) and the returned
\* maximum is max(0.0, all per-point maximums), NaN values being ignored:
\* each is the fixed sentinel or one of the points' values, is on the right
\* side of every point's value and of the sentinel, so minimum <= 100.0 and
\* maximum >= 0.0 even when all minimums exceed 100 or all maximums are
\* negative.
C11_SentinelsBoundExtremes ==
    (Aggregated /\ IsSome(data_points) /\ Unwrap(data_points) # <<>>
       /\ AllPresent(Unwrap(data_points)))
    => LET points == Unwrap(data_points)
           hundred == [k |-> "fin", n |-> 100, d |-> 1]
           zero == [k |-> "fin", n |-> 0, d |-> 1]
           lo == Unwrap(result).val.minimum
           hi == Unwrap(result).val.maximum
       IN /\ Unwrap(result).ok
          /\ lo.k # "nan" /\ hi.k # "nan"
          /\ lo = hundred \/ \E i \in 1..Len(points) : Unwrap(points[i].minimum) = lo
          /\ hi = zero \/ \E i \in 1..Len(points) : Unwrap(points[i].maximum) = hi
          /\ ~F64Lt(hundred, lo)
          /\ ~F64Lt(hi, zero)
          /\ \A i \in 1..Len(points) :
                /\ ~F64Lt(Unwrap(points[i].minimum), lo)
                /\ ~F64Lt(hi, Unwrap(points[i].maximum))

\* one point with minimum 150.0: the result keeps the sentinel 100.0; its
\* maximum 200.0 is returned
C11_Witness ==
    /\ Aggregated /\ IsSome(data_points) /\ Len(Unwrap(data_points)) = 1
    /\ Unwrap(data_points)[1].minimum = Some([k |-> "fin", n |-> 150, d |-> 1])
    /\ Unwrap(result).ok
    /\ Unwrap(result).val.minimum = [k |-> "fin", n |-> 100, d |-> 1]
    /\ Unwrap(result).val.maximum = [k |-> "fin", n |-> 200, d |-> 1]

----------------------------------------------------------------------------
(* C12 *)

\* C12: a call of aggregate_metrics sends exactly one get_metric_statistics
\* request and never a second one; the aggregation pass runs at most once and
\* only after that request has returned successfully; when the request fails
\* the call ends with the error without an aggregation pass.
C12_OneRequestOnePass ==
    op = "aggregate_metrics"
    => /\ Len(requests) <= 1
       /\ agg_passes <= 1
       /\ pc \in {"awaiting", "responded", "done"} => Len(requests) = 1
       /\ agg_passes = 1 =>
             /\ Len(requests) = 1
             /\ IsSome(response) /\ Unwrap(response).ok
             /\ pc = "done"
       /\ (pc = "done" /\ ~Unwrap(response).ok) =>
             /\ agg_passes = 0
             /\ IsSome(result) /\ ~Unwrap(result).ok
       /\ (pc = "done" /\ Unwrap(response).ok) => agg_passes = 1

\* a failed request ended the call: one request sent, nothing aggregated
C12_Witness ==
    /\ op = "aggregate_metrics" /\ pc = "done"
    /\ IsSome(response) /\ ~Unwrap(response).ok
    /\ Len(requests) = 1 /\ agg_passes = 0
    /\ IsSome(result) /\ ~Unwrap(result).ok

----------------------------------------------------------------------------
(* C13 *)

\* the instant one second after / before dt
NextSecond(dt) == ShiftSeconds(dt, 1)
PreviousSecond(dt) == ShiftSeconds(dt, 0 - 1)

\* the days from the day of `from` to the day of `to` (at most one year apart)
DaysBetween(from, to) ==
    IF from.date.year = to.date.year
    THEN {[year |-> to.date.year, ordinal |-> o] :
             o \in from.date.ordinal..to.date.ordinal}
    ELSE {[year |-> from.date.year, ordinal |-> o] :
             o \in from.date.ordinal..DaysInYear(from.date.year)}
         \cup {[year |-> to.date.year, ordinal |-> o] : o \in 1..to.date.ordinal}

\* instants of the window [from, to]: its two ends, the seconds next to them,
\* and every day of it at 00:00:00, 14:59:59, 15:00:00 and 23:59:59 UTC
WindowInstants(from, to) ==
    {t \in {from, to, NextSecond(from), PreviousSecond(to)}
           \cup {[date |-> d, secs |-> s] :
                    d \in DaysBetween(from, to), s \in {0, 53999, 54000, 86399}} :
        DateTimeLe(from, t) /\ DateTimeLe(t, to)}

\* C13: the windows of try_from partition the timeline of whole seconds: with
\* R = try_from(t), R.start <= t <= R.end; try_from(t') = R for the instants
\* t' of [R.start, R.end] (R.start and R.end among them); the window of the
\* second after R.end starts at that second, and the window of the second
\* before R.start ends at that second.
C13_WindowsPartition ==
    (op = "try_from" /\ IsSome(time_range) /\ Unwrap(time_range).ok)
    => LET R == Unwrap(time_range).val IN
       /\ DateTimeLe(R.start, date_time) /\ DateTimeLe(date_time, R.end)
       /\ \A t \in WindowInstants(R.start, R.end) : try_from(t) = Ok(R)
       /\ try_from(NextSecond(R.end)).val.start = NextSecond(R.end)
       /\ try_from(NextSecond(R.end)) # Ok(R)
       /\ try_from(PreviousSecond(R.start)).val.end = PreviousSecond(R.start)

\* a reference in the last second of the February 2020 window
C13_Witness ==
    /\ op = "try_from" /\ IsSome(time_range) /\ Unwrap(time_range).ok
    /\ date_time = AndHms(NaiveDateFromYmd(2020, 2, 29), 14, 59, 59)
    /\ Unwrap(time_range).val.end = date_time
    /\ try_from(NextSecond(date_time)).val.start =
          AndHms(NaiveDateFromYmd(2020, 2, 29), 15, 0, 0)

----------------------------------------------------------------------------
(* C14 *)

\* C14: a call of describe_all_instances sends exactly one describe-instances
\* request, capped at 20 results and without a continuation token; an answer
\* that names a further page is treated like any other, so the call returns
\* the instances of that first page only and reports no error for the rest.
C14_FirstPageOnly ==
    op = "describe_all_instances"
    => /\ Len(ec2_requests) <= 1
       /\ pc # "start" => Len(ec2_requests) = 1
       /\ \A i \in 1..Len(ec2_requests) :
             /\ ec2_requests[i].max_results = <<20>>
             /\ ec2_requests[i].next_token = <<>>
       /\ (pc = "done" /\ Unwrap(ec2_response).ok
             /\ IsSome(Unwrap(ec2_response).val.reservations)
             /\ ~SomeReservationWithoutList(Unwrap(Unwrap(ec2_response).val.reservations))
             /\ ~SomeRecordUnidentified(Unwrap(Unwrap(ec2_response).val.reservations)))
          => Unwrap(ec2_result) =
                Ok(InstanceIdsInOrder(Unwrap(Unwrap(ec2_response).val.reservations)))

\* the answer named a second page: one request, the first page's instance
C14_Witness ==
    /\ op = "describe_all_instances" /\ pc = "done"
    /\ Unwrap(ec2_response).ok
    /\ Unwrap(ec2_response).val.next_token = <<"page-2">>
    /\ Len(ec2_requests) = 1
    /\ Unwrap(ec2_result) = Ok(<<[instance_id |-> "i-1234567890abcdef0"]>>)

====
